---- MODULE Spec2Model ----
(***************************************************************************)
(* Model of pkg/clusterlogging/clusterlogforwarder.go: the                 *)
(* ClusterLogForwarderBuilder and PullClusterLogForwarder, run against a   *)
(* remote object store reached through builder.apiClient.  Every remote    *)
(* call either acts on the store or fails with a server error.             *)
(***************************************************************************)
EXTENDS Integers, Sequences, FiniteSets, TLC

\* ------------------------------------------------------------------ bounds
\* Number of distinct forwarder specs an object can carry (1..MaxSpec).
MaxSpec == 2

\* ------------------------------------------------------------------ values
\* A nil pointer (nil builder, nil Definition, nil Object, nil apiClient).
NULL == [null |-> TRUE]

\* The apiClient handle when present.
Client == [client |-> TRUE]

Names == {"", "a"}
Namespaces == {"", "ns"}
Specs == 1..MaxSpec

\* goclient.ObjectKey{Name, Namespace}
ObjectKey(name, namespace) == [Name |-> name, Namespace |-> namespace]

\* Keys under which the remote store can hold an object: name and namespace non-empty.
StoreKeys == {k \in [Name : Names, Namespace : Namespaces] : k.Name # "" /\ k.Namespace # ""}

\* clov1.ClusterLogForwarder values: identity metadata plus an opaque spec.
Forwarder(name, namespace, spec) == [Name |-> name, Namespace |-> namespace, Spec |-> spec]

Forwarders == [Name : Names, Namespace : Namespaces, Spec : Specs]

KeyOf(obj) == ObjectKey(obj.Name, obj.Namespace)

\* ------------------------------------------------------------------ errors
\* An error value: kind is the message, cause the kind of the wrapped error (%w).
Err(kind) == [kind |-> kind, cause |-> "none"]

\* The nil error.
NoErr == Err("nil")

\* fmt.Errorf("can not delete clusterlogforwarder: %w", err)
WrapDelete(err) == [kind |-> "can not delete clusterlogforwarder", cause |-> err.kind]

\* k8serrors.IsNotFound(err)
IsNotFound(err) == err.kind = "NotFound"

\* ------------------------------------------------------------------ remote store
\* The four remote verbs.  fault = TRUE is a failure of the call itself
\* (network, server, conflict): the store is left alone and an error other
\* than not-found comes back.
RemoteGet(st, key, fault) ==
    IF fault THEN [err |-> Err("ServerError"), obj |-> NULL]
    ELSE IF key \in StoreKeys /\ st[key] # NULL THEN [err |-> NoErr, obj |-> st[key]]
    ELSE [err |-> Err("NotFound"), obj |-> NULL]

RemoteCreate(st, obj, fault) ==
    IF fault THEN [err |-> Err("ServerError"), store |-> st]
    ELSE IF KeyOf(obj) \notin StoreKeys THEN [err |-> Err("Invalid"), store |-> st]
    ELSE IF st[KeyOf(obj)] # NULL THEN [err |-> Err("AlreadyExists"), store |-> st]
    ELSE [err |-> NoErr, store |-> [st EXCEPT ![KeyOf(obj)] = obj]]

RemoteUpdate(st, obj, fault) ==
    IF fault THEN [err |-> Err("ServerError"), store |-> st]
    ELSE IF KeyOf(obj) \notin StoreKeys \/ st[KeyOf(obj)] = NULL
        THEN [err |-> Err("NotFound"), store |-> st]
    ELSE [err |-> NoErr, store |-> [st EXCEPT ![KeyOf(obj)] = obj]]

RemoteDelete(st, obj, fault) ==
    IF fault THEN [err |-> Err("ServerError"), store |-> st]
    ELSE IF KeyOf(obj) \notin StoreKeys \/ st[KeyOf(obj)] = NULL
        THEN [err |-> Err("NotFound"), store |-> st]
    ELSE [err |-> NoErr, store |-> [st EXCEPT ![KeyOf(obj)] = NULL]]

\* ------------------------------------------------------------------ execution context
\* What one invocation threads through its calls: the builder, the store,
\* the remote calls issued so far and the fault chosen for each call slot.
Ctx(b, st, faults) == [builder |-> b, store |-> st, calls |-> <<>>, faults |-> faults]

\* The fault of the next call slot; calls beyond the chosen slots do not fail.
NextFault(ctx) ==
    IF Len(ctx.calls) + 1 \in DOMAIN ctx.faults THEN ctx.faults[Len(ctx.calls) + 1] ELSE FALSE

Call(verb, key, err, obj) == [verb |-> verb, key |-> key, err |-> err, obj |-> obj]

Logged(ctx, call) == [ctx EXCEPT !.calls = Append(@, call)]

\* ------------------------------------------------------------------ the builder
ClusterLogForwarderBuilder(definition, object, apiClient, errorMsg) ==
    [Definition |-> definition, Object |-> object, apiClient |-> apiClient, errorMsg |-> errorMsg]

\* validate with the client check placed before the definition check.
validateClientFirst(b) ==
    IF b = NULL THEN <<FALSE, Err("received nil ClusterLogForwarder builder")>>
    ELSE IF b.apiClient = NULL THEN <<FALSE, Err("ClusterLogForwarder builder cannot have nil apiClient")>>
    ELSE IF b.Definition = NULL THEN <<FALSE, Err("undefined ClusterLogForwarder")>>
    ELSE <<TRUE, NoErr>>

validate(b) ==
    IF b = NULL THEN <<FALSE, Err("received nil ClusterLogForwarder builder")>>
    ELSE IF b.Definition = NULL THEN <<FALSE, Err("undefined ClusterLogForwarder")>>
    ELSE IF b.apiClient = NULL THEN <<FALSE, Err("ClusterLogForwarder builder cannot have nil apiClient")>>
    ELSE <<TRUE, NoErr>>

\* Get after validation, r being the result of builder.apiClient.Get.
getFetched(ctx, r) ==
    [ctx |-> Logged(ctx, Call("get", KeyOf(ctx.builder.Definition), r.err, r.obj)),
     obj |-> IF r.err # NoErr THEN NULL ELSE r.obj,
     err |-> r.err]

Get(ctx) ==
    IF ~validate(ctx.builder)[1]
    THEN [ctx |-> ctx, obj |-> NULL, err |-> validate(ctx.builder)[2]]
    ELSE getFetched(ctx, RemoteGet(ctx.store, KeyOf(ctx.builder.Definition), NextFault(ctx)))

\* The fetch result stored in Object, true reported only when the fetch succeeded.
existsOnlyOnSuccess(g) ==
    [ctx |-> [g.ctx EXCEPT !.builder.Object = g.obj],
     ok |-> (g.err = NoErr)]

\* Exists after validation, g being what builder.Get() returned.
existsFetched(g) ==
    [ctx |-> [g.ctx EXCEPT !.builder.Object = g.obj],
     ok |-> (g.err = NoErr \/ ~IsNotFound(g.err))]

\* Exists fetching a second time to fill Object.
ExistsFetchTwice(ctx) ==
    IF ~validate(ctx.builder)[1]
    THEN [ctx |-> ctx, ok |-> FALSE]
    ELSE existsFetched(Get(Get(ctx).ctx))

Exists(ctx) ==
    IF ~validate(ctx.builder)[1]
    THEN [ctx |-> ctx, ok |-> FALSE]
    ELSE existsFetched(Get(ctx))

\* Create after builder.apiClient.Create returned r.
createIssued(ctx, r) ==
    [ctx |-> Logged([ctx EXCEPT !.store = r.store,
                                !.builder.Object = IF r.err = NoErr THEN ctx.builder.Definition ELSE @],
                    Call("create", KeyOf(ctx.builder.Definition), r.err, NULL)),
     err |-> r.err,
     ret |-> [ctx.builder EXCEPT !.Object = IF r.err = NoErr THEN ctx.builder.Definition ELSE @]]

\* The remote create issued whatever Exists reported.
createAlways(e) ==
    createIssued(e.ctx, RemoteCreate(e.ctx.store, e.ctx.builder.Definition, NextFault(e.ctx)))

\* Create after validation, e being what builder.Exists() returned.
createIfMissing(e) ==
    IF ~e.ok
    THEN createIssued(e.ctx, RemoteCreate(e.ctx.store, e.ctx.builder.Definition, NextFault(e.ctx)))
    ELSE [ctx |-> e.ctx, err |-> NoErr, ret |-> e.ctx.builder]

Create(ctx) ==
    IF ~validate(ctx.builder)[1]
    THEN [ctx |-> ctx, err |-> validate(ctx.builder)[2], ret |-> ctx.builder]
    ELSE createIfMissing(Exists(ctx))

\* Delete after builder.apiClient.Delete returned r.
deleteIssued(ctx, r) ==
    IF r.err # NoErr
    THEN [ctx |-> Logged([ctx EXCEPT !.store = r.store],
                         Call("delete", KeyOf(ctx.builder.Definition), r.err, NULL)),
          err |-> WrapDelete(r.err)]
    ELSE [ctx |-> Logged([ctx EXCEPT !.store = r.store, !.builder.Object = NULL],
                         Call("delete", KeyOf(ctx.builder.Definition), r.err, NULL)),
          err |-> NoErr]

\* The remote delete issued whatever Exists reported.
deleteAlways(e) ==
    deleteIssued(e.ctx, RemoteDelete(e.ctx.store, e.ctx.builder.Definition, NextFault(e.ctx)))

\* Delete after validation, e being what builder.Exists() returned.
deleteIfExists(e) ==
    IF ~e.ok
    THEN [ctx |-> e.ctx, err |-> Err("clusterlogforwarder cannot be deleted because it does not exist")]
    ELSE deleteIssued(e.ctx, RemoteDelete(e.ctx.store, e.ctx.builder.Definition, NextFault(e.ctx)))

Delete(ctx) ==
    IF ~validate(ctx.builder)[1]
    THEN [ctx |-> ctx, err |-> validate(ctx.builder)[2]]
    ELSE deleteIfExists(Exists(ctx))

\* The force branch of Update, d being what builder.Delete() returned.
updateFallback(d) ==
    IF d.err # NoErr
    THEN [ctx |-> d.ctx, err |-> d.err, ret |-> NULL]
    ELSE Create(d.ctx)

\* Update taking the delete/create fallback whatever the force flag says.
updateIgnoringForce(ctx, r, force) ==
    IF r.err # NoErr
    THEN updateFallback(Delete(Logged([ctx EXCEPT !.store = r.store],
                                      Call("update", KeyOf(ctx.builder.Definition), r.err, NULL))))
    ELSE [ctx |-> Logged([ctx EXCEPT !.store = r.store, !.builder.Object = ctx.builder.Definition],
                         Call("update", KeyOf(ctx.builder.Definition), r.err, NULL)),
          err |-> r.err,
          ret |-> [ctx.builder EXCEPT !.Object = ctx.builder.Definition]]

\* Update after builder.apiClient.Update returned r.
updateIssued(ctx, r, force) ==
    IF r.err # NoErr /\ force
    THEN updateFallback(Delete(Logged([ctx EXCEPT !.store = r.store],
                                      Call("update", KeyOf(ctx.builder.Definition), r.err, NULL))))
    ELSE [ctx |-> Logged([ctx EXCEPT !.store = r.store,
                                     !.builder.Object = IF r.err = NoErr THEN ctx.builder.Definition ELSE @],
                         Call("update", KeyOf(ctx.builder.Definition), r.err, NULL)),
          err |-> r.err,
          ret |-> [ctx.builder EXCEPT !.Object = IF r.err = NoErr THEN ctx.builder.Definition ELSE @]]

Update(ctx, force) ==
    IF ~validate(ctx.builder)[1]
    THEN [ctx |-> ctx, err |-> validate(ctx.builder)[2], ret |-> ctx.builder]
    ELSE updateIssued(ctx, RemoteUpdate(ctx.store, ctx.builder.Definition, NextFault(ctx)), force)

\* The errorMsg recorded by PullClusterLogForwarder: the namespace check overwrites the name check.
pullErrorMsg(name, namespace) ==
    IF namespace = "" THEN "clusterlogforwarder 'namespace' cannot be empty"
    ELSE IF name = "" THEN "clusterlogforwarder 'name' cannot be empty"
    ELSE ""

\* PullClusterLogForwarder after builder.Exists() returned e.
pullChecked(e) ==
    IF ~e.ok
    THEN [ctx |-> e.ctx, obj |-> NULL, err |-> Err("clusterlogforwarder object doesn't exist in namespace")]
    ELSE [ctx |-> e.ctx, obj |-> e.ctx.builder.Object, err |-> NoErr]

PullClusterLogForwarder(st, faults, apiClient, name, namespace) ==
    pullChecked(Exists(Ctx(ClusterLogForwarderBuilder(Forwarder(name, namespace, 0), NULL, apiClient,
                                                      pullErrorMsg(name, namespace)),
                           st, faults)))

\* ------------------------------------------------------------------ state
VARIABLES
    builder,   \* the caller's builder (NULL for a nil *ClusterLogForwarderBuilder)
    store,     \* the remote store: StoreKeys -> Forwarders \cup {NULL}
    last,      \* the invocation that returned last
    prev       \* the invocation that returned before it

vars == <<builder, store, last, prev>>

\* A fault choice for each of the first n remote calls of an invocation.
FaultSeqs(n) == [1..n -> BOOLEAN]

Invocation(op, force, args, pre, preStore, calls, err, ret) ==
    [op |-> op, force |-> force, args |-> args, pre |-> pre, preStore |-> preStore,
     calls |-> calls, err |-> err, ret |-> ret]

NoInvocation == Invocation("none", FALSE, NULL, NULL, NULL, <<>>, NoErr, NULL)

\* Definitions a builder is constructed with: a named, namespaced forwarder, or none.
Definitions == {d \in Forwarders : KeyOf(d) \in StoreKeys} \cup {NULL}

Builders ==
    {NULL} \cup
    {ClusterLogForwarderBuilder(d, NULL, c, "") : d \in Definitions, c \in {Client, NULL}}

Stores == {st \in [StoreKeys -> Forwarders \cup {NULL}] : \A k \in StoreKeys : st[k] # NULL => KeyOf(st[k]) = k}

Init ==
    /\ builder \in Builders
    /\ store \in Stores
    /\ last = NoInvocation
    /\ prev = NoInvocation

DoGet ==
    \E f \in FaultSeqs(1) :
        LET r == Get(Ctx(builder, store, f)) IN
        /\ builder' = r.ctx.builder
        /\ store' = r.ctx.store
        /\ prev' = last
        /\ last' = Invocation("Get", FALSE, NULL, builder, store, r.ctx.calls, r.err, r.obj)

DoExists ==
    \E f \in FaultSeqs(1) :
        LET r == Exists(Ctx(builder, store, f)) IN
        /\ builder' = r.ctx.builder
        /\ store' = r.ctx.store
        /\ prev' = last
        /\ last' = Invocation("Exists", FALSE, NULL, builder, store, r.ctx.calls, NoErr, [bool |-> r.ok])

DoCreate ==
    \E f \in FaultSeqs(2) :
        LET r == Create(Ctx(builder, store, f)) IN
        /\ builder' = r.ctx.builder
        /\ store' = r.ctx.store
        /\ prev' = last
        /\ last' = Invocation("Create", FALSE, NULL, builder, store, r.ctx.calls, r.err, r.ret)

DoDelete ==
    \E f \in FaultSeqs(2) :
        LET r == Delete(Ctx(builder, store, f)) IN
        /\ builder' = r.ctx.builder
        /\ store' = r.ctx.store
        /\ prev' = last
        /\ last' = Invocation("Delete", FALSE, NULL, builder, store, r.ctx.calls, r.err, NULL)

DoUpdate ==
    \E force \in BOOLEAN : \E f \in FaultSeqs(IF force THEN 5 ELSE 1) :
        LET r == Update(Ctx(builder, store, f), force) IN
        /\ builder' = r.ctx.builder
        /\ store' = r.ctx.store
        /\ prev' = last
        /\ last' = Invocation("Update", force, NULL, builder, store, r.ctx.calls, r.err, r.ret)

\* PullClusterLogForwarder builds its own builder: the caller's is left alone.
DoPull ==
    \E f \in FaultSeqs(1), c \in {Client, NULL}, name \in Names, namespace \in Namespaces :
        LET r == PullClusterLogForwarder(store, f, c, name, namespace) IN
        /\ builder' = builder
        /\ store' = r.ctx.store
        /\ prev' = last
        /\ last' = Invocation("Pull", FALSE, [apiClient |-> c, name |-> name, namespace |-> namespace],
                              builder, store, r.ctx.calls, r.err, r.obj)

Next == DoGet \/ DoExists \/ DoCreate \/ DoDelete \/ DoUpdate \/ DoPull

Spec == Init /\ [][Next]_vars

\* ------------------------------------------------------------------ observations
Valid(b) == validate(b)[1]

\* The remote calls of an invocation that used the given verb.
CallsOf(inv, verb) == {i \in 1..Len(inv.calls) : inv.calls[i].verb = verb}

\* The resource named by definition def is held by store st.
Held(st, def) == KeyOf(def) \in StoreKeys /\ st[KeyOf(def)] # NULL

ErrUndefined == Err("undefined ClusterLogForwarder")
ErrNilClient == Err("ClusterLogForwarder builder cannot have nil apiClient")
ErrCannotDelete == Err("clusterlogforwarder cannot be deleted because it does not exist")
ErrPullMissing == Err("clusterlogforwarder object doesn't exist in namespace")

BuilderMethods == {"Get", "Create", "Update", "Delete", "Exists"}

\* ------------------------------------------------------------------ C1
\* C1: PullClusterLogForwarder with an empty name or an empty namespace and a
\* present client returns an error and issues no remote call.
C1_PullEmptyFailsBeforeNetwork ==
    (/\ last.op = "Pull"
     /\ last.args.apiClient # NULL
     /\ (last.args.name = "" \/ last.args.namespace = ""))
    => (last.err # NoErr /\ last.calls = <<>>)

\* ------------------------------------------------------------------ C2
\* C2: with the definition or the client absent, every builder method issues
\* no remote call and leaves the builder and the store as they were; Get,
\* Create, Update and Delete return the validation error, the undefined-definition
\* one taking precedence over the nil-client one, and Exists returns false.
C2_InvalidBuilderNoRemote ==
    (/\ last.op \in BuilderMethods
     /\ last.pre # NULL
     /\ (last.pre.Definition = NULL \/ last.pre.apiClient = NULL))
    => /\ last.calls = <<>>
       /\ builder = last.pre
       /\ store = last.preStore
       /\ last.op = "Exists" => last.ret = [bool |-> FALSE]
       /\ last.op # "Exists" =>
            last.err = (IF last.pre.Definition = NULL THEN ErrUndefined ELSE ErrNilClient)

\* An Update on a builder with neither definition nor client, over a store that
\* holds an object, returned the undefined-definition error.
C2_Witness ==
    /\ last.op = "Update"
    /\ last.pre # NULL
    /\ last.pre.Definition = NULL
    /\ last.pre.apiClient = NULL
    /\ \E k \in StoreKeys : last.preStore[k] # NULL
    /\ last.err = ErrUndefined

\* ------------------------------------------------------------------ C3
\* What Create does in general: one fetch first, a remote create exactly when
\* that fetch reported not-found, and otherwise nothing more, a nil error and
\* the builder returned.
CreateOnlyWhenMissing(inv, b, st) ==
    (inv.op = "Create" /\ Valid(inv.pre))
    => /\ Len(inv.calls) >= 1
       /\ inv.calls[1].verb = "get"
       /\ CallsOf(inv, "create") # {} <=> IsNotFound(inv.calls[1].err)
       /\ Cardinality(CallsOf(inv, "create")) <= 1
       /\ ~IsNotFound(inv.calls[1].err) =>
            (Len(inv.calls) = 1 /\ inv.err = NoErr /\ inv.ret = b /\ st = inv.preStore)

\* Two Creates in a row on a valid builder, the first one starting from a
\* store that does not hold the resource.
CreateTwice ==
    /\ prev.op = "Create"
    /\ last.op = "Create"
    /\ Valid(prev.pre)
    /\ KeyOf(prev.pre.Definition) \in StoreKeys
    /\ ~Held(prev.preStore, prev.pre.Definition)

\* C3 as claimed: two Creates in a row from a store without the resource issue
\* exactly one remote create, and Create creates only when Exists() is false.
C3_CreateTwiceExactlyOne ==
    /\ CreateTwice =>
         Cardinality(CallsOf(prev, "create")) + Cardinality(CallsOf(last, "create")) = 1
    /\ CreateOnlyWhenMissing(last, builder, store)

\* C3 amended: the same, for the runs in which the first Create's remote
\* create succeeded.
C3_CreateTwiceOneWhenFirstSucceeds ==
    /\ (/\ CreateTwice
        /\ \E i \in CallsOf(prev, "create") : prev.calls[i].err = NoErr)
       => /\ Cardinality(CallsOf(prev, "create")) = 1
          /\ CallsOf(last, "create") = {}
          /\ last.err = NoErr
    /\ CreateOnlyWhenMissing(last, builder, store)

\* The first Create created the resource and the second one found it.
C3_Witness ==
    /\ CreateTwice
    /\ \E i \in CallsOf(prev, "create") : prev.calls[i].err = NoErr
    /\ Len(last.calls) = 1
    /\ last.calls[1].err = NoErr
    /\ last.err = NoErr

\* ------------------------------------------------------------------ C4
\* C4: a Delete on a valid builder whose fetch reports not-found returns the
\* "does not exist" error, issues no remote delete and leaves the store alone.
C4_DeleteMissingNoRemoteDelete ==
    (/\ last.op = "Delete"
     /\ Valid(last.pre)
     /\ Len(last.calls) >= 1
     /\ IsNotFound(last.calls[1].err))
    => /\ last.err = ErrCannotDelete
       /\ CallsOf(last, "delete") = {}
       /\ store = last.preStore

\* A Delete of a resource the store does not hold has returned.
C4_Witness ==
    /\ last.op = "Delete"
    /\ Valid(last.pre)
    /\ ~Held(last.preStore, last.pre.Definition)
    /\ Len(last.calls) = 1
    /\ IsNotFound(last.calls[1].err)
    /\ last.err = ErrCannotDelete

\* ------------------------------------------------------------------ C5
\* C5: Update(force=false) on a valid builder whose remote update fails returns
\* that error, issues nothing but the one update and leaves Object as it was.
C5_UpdateNoForceReturnsFailure ==
    (/\ last.op = "Update"
     /\ ~last.force
     /\ Valid(last.pre)
     /\ last.calls[1].err # NoErr)
    => /\ last.err = last.calls[1].err
       /\ Len(last.calls) = 1
       /\ last.calls[1].verb = "update"
       /\ builder.Object = last.pre.Object
       /\ store = last.preStore

\* An unforced Update failed on a builder that had fetched its Object before.
C5_Witness ==
    /\ last.op = "Update"
    /\ ~last.force
    /\ Valid(last.pre)
    /\ last.pre.Object # NULL
    /\ last.calls[1].err = Err("ServerError")
    /\ last.err = Err("ServerError")

\* ------------------------------------------------------------------ C6
\* The Delete step of a forced Update failed: its fetch reported not-found, or
\* its remote delete returned an error.
DeleteStepFailed(inv) ==
    \/ (Len(inv.calls) >= 2 /\ IsNotFound(inv.calls[2].err))
    \/ \E i \in CallsOf(inv, "delete") : inv.calls[i].err # NoErr

DeleteStepError(inv) ==
    IF IsNotFound(inv.calls[2].err) THEN ErrCannotDelete ELSE WrapDelete(inv.calls[3].err)

\* C6: Update(force=true) on a valid builder whose remote update fails issues
\* a remote delete and then a remote create; if the delete step fails no
\* create is issued and the delete error is returned.
C6_ForceUpdateDeleteThenCreate ==
    (/\ last.op = "Update"
     /\ last.force
     /\ Valid(last.pre)
     /\ last.calls[1].err # NoErr)
    => IF DeleteStepFailed(last)
       THEN CallsOf(last, "create") = {} /\ last.err = DeleteStepError(last)
       ELSE \E i \in CallsOf(last, "delete") : \E j \in CallsOf(last, "create") : i < j

\* ------------------------------------------------------------------ C7
\* C7: after a Delete that returned nil the Object is absent; after a Create
\* or an Update that returned nil the Object equals the Definition.
C7_ObjectAfterSuccess ==
    (last.op \in {"Delete", "Create", "Update"} /\ Valid(last.pre) /\ last.err = NoErr)
    => IF last.op = "Delete"
       THEN builder.Object = NULL
       ELSE builder.Object = builder.Definition

\* ------------------------------------------------------------------ C8
\* C8 as claimed: at most two remote calls per invocation, at most three for
\* Update with force=true.
C8_AtMostThreeCalls ==
    Len(last.calls) <= (IF last.op = "Update" /\ last.force THEN 3 ELSE 2)

\* C8 amended: at most two remote calls per invocation, at most five for
\* Update with force=true (update, get, delete, get, create).
C8_AtMostFiveCalls ==
    Len(last.calls) <= (IF last.op = "Update" /\ last.force THEN 5 ELSE 2)

\* A forced Update ran its whole fallback: update, get, delete, get, create.
C8_Witness ==
    /\ last.op = "Update"
    /\ last.force
    /\ [i \in 1..Len(last.calls) |-> last.calls[i].verb]
         = <<"update", "get", "delete", "get", "create">>

\* ------------------------------------------------------------------ C9
\* C9: PullClusterLogForwarder either fails with the "doesn't exist" error or
\* returns a present object, the one the fetch for (name, namespace) returned.
C9_PullReturnsFetchedObject ==
    last.op = "Pull"
    => IF last.err = NoErr
       THEN /\ last.ret # NULL
            /\ Len(last.calls) = 1
            /\ last.calls[1].verb = "get"
            /\ last.calls[1].key = ObjectKey(last.args.name, last.args.namespace)
            /\ last.calls[1].err = NoErr
            /\ last.ret = last.calls[1].obj
       ELSE last.err = ErrPullMissing /\ last.ret = NULL

\* ------------------------------------------------------------------ C10
\* C10: on a valid builder Exists issues exactly one fetch, returns true iff
\* the fetch succeeded or failed with something other than not-found, and
\* overwrites Object with the fetched object (absent on any fetch error); Get
\* issues the same fetch, changes nothing in the builder and returns the
\* remote object and the remote error as they came.
C10_ExistsAndGet ==
    (last.op \in {"Exists", "Get"} /\ Valid(last.pre))
    => /\ Len(last.calls) = 1
       /\ last.calls[1].verb = "get"
       /\ last.calls[1].key = KeyOf(last.pre.Definition)
       /\ last.calls[1].err = NoErr => Held(last.preStore, last.pre.Definition)
       /\ IsNotFound(last.calls[1].err) => ~Held(last.preStore, last.pre.Definition)
       /\ store = last.preStore
       /\ last.op = "Exists" =>
            /\ last.ret = [bool |-> (last.calls[1].err = NoErr \/ ~IsNotFound(last.calls[1].err))]
            /\ builder = [last.pre EXCEPT !.Object =
                            IF last.calls[1].err = NoErr
                            THEN last.preStore[KeyOf(last.pre.Definition)] ELSE NULL]
       /\ last.op = "Get" =>
            /\ builder = last.pre
            /\ last.err = last.calls[1].err
            /\ last.ret = (IF last.calls[1].err = NoErr
                           THEN last.preStore[KeyOf(last.pre.Definition)] ELSE NULL)

\* Exists answered true on a failed fetch and wiped the Object fetched before.
C10_Witness ==
    /\ last.op = "Exists"
    /\ Valid(last.pre)
    /\ last.pre.Object # NULL
    /\ last.calls[1].err = Err("ServerError")
    /\ last.ret = [bool |-> TRUE]
    /\ builder.Object = NULL
====
